---- MODULE Spec2Model ----
(***************************************************************************)
(* MCVirt hard-drive Factory (virtual_machine/hard_drive/factory.py).      *)
(*                                                                         *)
(* The module models the process-wide object cache Factory.CACHED_OBJECTS  *)
(* and Factory.getObject, both as one call run to completion (Spec) and as *)
(* Python threads of the Pyro daemon interleaving between the statements   *)
(* of getObject (SpecConc), and Factory.ensure_hdd_valid / Factory.create  *)
(* with the answers of their collaborators (SpecCreate), and the volume    *)
(* operations of storage/lvm.py with Local.increase_size (SpecVolume).     *)
(***************************************************************************)
EXTENDS Integers, Sequences, FiniteSets, TLC

\* ------------------------------------------------------------------ bounds
MaxObjects == 2
MaxSize == 2
MaxFree == 2
NumThreads == 2

\* ------------------------------------------------------------------ values
\* Python's None; '' is the empty string.
None == "None"
NoObject == 0

\* Python truthiness of a storage type value (None and '' are falsy).
Truthy(x) == x # None /\ x # ""

VMs == {"vm1"}
DiskIds == {1, 2}
Threads == 1..NumThreads

\* Factory.STORAGE_TYPES, by class __name__.
STORAGE_TYPES == <<"Local", "Drbd">>

\* The values vm_config['storage_type'] takes.
VmStorageTypes == {None, "Local", "Drbd"}

\* The **config overrides getObject is called with: a dict over these keys.
StorageTypeArgs == {"Local", "Drbd", "Bogus"}
DriverArgs == {"virtio"}
Configs ==
    { c \in UNION { [D -> StorageTypeArgs \cup DriverArgs] :
                      D \in SUBSET {"storage_type", "driver"} } :
        /\ ("storage_type" \in DOMAIN c => c["storage_type"] \in StorageTypeArgs)
        /\ ("driver" \in DOMAIN c => c["driver"] \in DriverArgs) }
EmptyConfig == [k \in {} |-> None]

Keys == VMs \X DiskIds \X {"", "Local", "Drbd", "Bogus"}
NoKey == <<"", 0, "">>

VARIABLES
    CACHED_OBJECTS,   \* Factory.CACHED_OBJECTS: cache key -> object id
    vm_config,        \* VM name -> vm_config['storage_type']
    pyro_initialised, \* PyroObject._pyro_initialised of the Factory
    nextId,           \* number of hard-drive objects constructed so far
    registered,       \* ids registered with the Pyro daemon
    last,             \* the last completed call: its arguments and its result
    lastNoOv,         \* history: key -> id the last no-override lookup returned
    evicted,          \* history: the key the last cache-disabling lookup evicted,
                      \* until a cache-enabled lookup of that key
    frames,           \* SpecConc: thread -> frame of its getObject call
    everDisabled,     \* SpecConc history: a cache-disabling lookup has run
    volume            \* the logical volume of a disk, as LVM holds it

vars == <<CACHED_OBJECTS, vm_config, pyro_initialised, nextId, registered, last,
          lastNoOv, evicted, frames, everDisabled, volume>>

\* ------------------------------------------------------- getObject, pieces

\* Mutant of getClass: a class is returned for any name.
getClassUnchecked(storage_type) == [raised |-> FALSE, cls |-> storage_type]

\* Factory.getClass: the class whose __name__ is storage_type, or the raise.
getClass(storage_type) ==
    IF \E i \in DOMAIN STORAGE_TYPES : STORAGE_TYPES[i] = storage_type
    THEN [raised |-> FALSE, cls |-> storage_type]
    ELSE [raised |-> TRUE, cls |-> None]

\* getObject lines 48-58: the VM's configured type, and the storage_type
\* override only when the VM has none.
ResolveStorageType(vm_storage_type, config) ==
    LET storage_type == IF Truthy(vm_storage_type) THEN vm_storage_type ELSE None
    IN  IF "storage_type" \in DOMAIN config /\ storage_type = None
        THEN config["storage_type"]
        ELSE storage_type

\* getObject line 59: del config['storage_type'].
RemoveStorageType(config) ==
    [k \in DOMAIN config \ {"storage_type"} |-> config[k]]

\* getObject lines 62-63.
CacheKey(vm, disk_id, storage_type) ==
    <<vm, disk_id, IF Truthy(storage_type) THEN storage_type ELSE "">>

\* getObject line 66: len(config), as a truth value.
DisableCache(config) == Cardinality(DOMAIN config) # 0

\* Mutant of RegisterObject: the object is not handed to the daemon.
RegisterObjectNever(reg, initialised, obj) == reg

\* PyroObject._register_object: registers only under an initialised daemon.
RegisterObject(reg, initialised, obj) ==
    IF initialised THEN reg \cup {obj} ELSE reg

\* ------------------------------------------------------ getObject, frames
\* A frame is the local state of one getObject call; s is the state the call
\* shares with the other calls: [cache, nextId, registered, initialised].

IdleFrame ==
    [pc |-> "idle", vm |-> "", disk_id |-> 0, args |-> EmptyConfig,
     vm_storage_type |-> None, config |-> EmptyConfig, storage_type |-> None, cache_key |-> NoKey,
     disable_cache |-> FALSE, found_present |-> FALSE,
     hard_drive_object |-> NoObject, cls |-> None, constructed |-> FALSE,
     registered |-> FALSE, outcome |-> "none", ret |-> NoObject]

\* Lines 44-66: everything up to the cache is local computation on the
\* arguments and on the VM configuration read at line 47.
StepResolve(f, vm_storage_type) ==
    LET storage_type == ResolveStorageType(vm_storage_type, f.args)
        config == RemoveStorageType(f.args)
    IN  [f EXCEPT !.pc = "l70", !.config = config,
                  !.vm_storage_type = vm_storage_type,
                  !.storage_type = storage_type,
                  !.cache_key = CacheKey(f.vm, f.disk_id, storage_type),
                  !.disable_cache = DisableCache(config)]

\* Lines 70-71: if disable_cache: if cache_key in Factory.CACHED_OBJECTS.
StepEvictTest(f, s) ==
    [f |-> [f EXCEPT !.pc = IF f.disable_cache /\ f.cache_key \in DOMAIN s.cache
                            THEN "l72" ELSE "l73"],
     s |-> s]

\* Mutant of StepEvict: the cached entry is left in place.
StepEvictKeep(f, s) ==
    [f |-> [f EXCEPT !.pc = "l73"], s |-> s]

\* Line 72: del Factory.CACHED_OBJECTS[cache_key] (KeyError on a missing key).
StepEvict(f, s) ==
    IF f.cache_key \in DOMAIN s.cache
    THEN [f |-> [f EXCEPT !.pc = "l73"],
          s |-> [s EXCEPT !.cache =
                    [k \in DOMAIN s.cache \ {f.cache_key} |-> s.cache[k]]]]
    ELSE [f |-> [f EXCEPT !.pc = "done", !.outcome = "KeyError"], s |-> s]

\* Mutant of StepMissTest: the membership test always finds the key missing.
StepMissTestAlwaysMiss(f, s) ==
    [f |-> [f EXCEPT !.pc = "l74", !.found_present = FALSE], s |-> s]

\* Line 73: if cache_key not in Factory.CACHED_OBJECTS.
StepMissTest(f, s) ==
    LET present == f.cache_key \in DOMAIN s.cache
    IN  [f |-> [f EXCEPT !.pc = IF present THEN "l82" ELSE "l74",
                         !.found_present = present],
         s |-> s]

\* Lines 74-78: getClass, the constructor, _register_object, and the return
\* of the uncached object.
StepConstruct(f, s) ==
    LET c == getClass(f.storage_type)
        obj == s.nextId + 1
    IN  IF c.raised
        THEN [f |-> [f EXCEPT !.pc = "done", !.outcome = "UnknownStorageType"],
              s |-> s]
        ELSE [f |-> [f EXCEPT !.pc = IF f.disable_cache THEN "done" ELSE "l79",
                              !.hard_drive_object = obj, !.cls = c.cls,
                              !.constructed = TRUE,
                              !.registered = s.initialised,
                              !.outcome = IF f.disable_cache THEN "returned"
                                          ELSE "none",
                              !.ret = IF f.disable_cache THEN obj ELSE NoObject],
              s |-> [s EXCEPT !.nextId = obj,
                              !.registered =
                                  RegisterObject(s.registered, s.initialised, obj)]]

\* Line 79: Factory.CACHED_OBJECTS[cache_key] = hard_drive_object.
StepStore(f, s) ==
    [f |-> [f EXCEPT !.pc = "l82"],
     s |-> [s EXCEPT !.cache =
               [k \in DOMAIN s.cache \cup {f.cache_key} |->
                   IF k = f.cache_key THEN f.hard_drive_object ELSE s.cache[k]]]]

\* Line 82: return Factory.CACHED_OBJECTS[cache_key] (KeyError on a missing key).
StepReturn(f, s) ==
    IF f.cache_key \in DOMAIN s.cache
    THEN [f |-> [f EXCEPT !.pc = "done", !.outcome = "returned",
                          !.ret = s.cache[f.cache_key]],
          s |-> s]
    ELSE [f |-> [f EXCEPT !.pc = "done", !.outcome = "KeyError"], s |-> s]

\* One statement of getObject, by the frame's position.
Step(f, s) ==
    CASE f.pc = "l70" -> StepEvictTest(f, s)
      [] f.pc = "l72" -> StepEvict(f, s)
      [] f.pc = "l73" -> StepMissTest(f, s)
      [] f.pc = "l74" -> StepConstruct(f, s)
      [] f.pc = "l79" -> StepStore(f, s)
      [] f.pc = "l82" -> StepReturn(f, s)
      [] OTHER -> [f |-> f, s |-> s]

RECURSIVE RunToEnd(_, _)
\* getObject run to its return or raise with no other call in between.
RunToEnd(f, s) ==
    IF f.pc = "done" THEN [f |-> f, s |-> s]
    ELSE LET r == Step(f, s) IN RunToEnd(r.f, r.s)

Shared ==
    [cache |-> CACHED_OBJECTS, nextId |-> nextId, registered |-> registered,
     initialised |-> pyro_initialised]

\* Lines 41-66 for a call getObject(vm_object, disk_id, **args).
StartFrame(vm, disk_id, args) ==
    StepResolve([IdleFrame EXCEPT !.vm = vm, !.disk_id = disk_id, !.args = args],
                vm_config[vm])

\* ------------------------------------------------------------------- Init
\* No logical volume behind the path of the volume object (check_exists).
NoVolume == [exists |-> FALSE, size |-> 0]

NoCall ==
    [op |-> "none", f |-> IdleFrame, prevRet |-> NoObject,
     cachedBefore |-> NoObject, afterEvict |-> FALSE]

Init ==
    /\ CACHED_OBJECTS = [k \in {} |-> NoObject]
    /\ vm_config \in [VMs -> VmStorageTypes]
    /\ pyro_initialised \in BOOLEAN
    /\ nextId = 0
    /\ registered = {}
    /\ last = NoCall
    /\ lastNoOv = [k \in Keys |-> NoObject]
    /\ evicted = NoKey
    /\ frames = [t \in Threads |-> IdleFrame]
    /\ everDisabled = FALSE
    /\ volume = NoVolume

\* ------------------------------------------------ Spec: one call at a time

\* Factory.getObject(vm_object, disk_id, **args), as one call.
GetObject(vm, disk_id, args) ==
    LET f0 == StartFrame(vm, disk_id, args)
        r == RunToEnd(f0, Shared)
        k == f0.cache_key
    IN  /\ r.s.nextId <= MaxObjects
        /\ CACHED_OBJECTS' = r.s.cache
        /\ nextId' = r.s.nextId
        /\ registered' = r.s.registered
        /\ last' = [op |-> "getObject", f |-> r.f, prevRet |-> lastNoOv[k],
                    cachedBefore |-> IF k \in DOMAIN CACHED_OBJECTS
                                     THEN CACHED_OBJECTS[k] ELSE NoObject,
                    afterEvict |-> k = evicted,
                    nextId0 |-> nextId, registered0 |-> registered]
        /\ lastNoOv' =
             [lastNoOv EXCEPT ![k] =
                 IF f0.disable_cache THEN NoObject
                 ELSE IF args = EmptyConfig /\ r.f.outcome = "returned"
                      THEN r.f.ret
                      ELSE @]
        /\ evicted' = IF f0.disable_cache THEN k
                      ELSE IF evicted = k THEN NoKey ELSE evicted
        /\ UNCHANGED <<vm_config, pyro_initialised, frames, everDisabled, volume>>

\* The VM's configured storage type changes (the VM's own configuration code).
SetVmStorageType(vm, t) ==
    /\ vm_config[vm] # t
    /\ vm_config' = [vm_config EXCEPT ![vm] = t]
    /\ lastNoOv' = [k \in Keys |-> IF k[1] = vm THEN NoObject ELSE lastNoOv[k]]
    /\ UNCHANGED <<CACHED_OBJECTS, pyro_initialised, nextId, registered, last,
                   evicted, frames, everDisabled, volume>>

Next ==
    \/ \E vm \in VMs, d \in DiskIds, args \in Configs : GetObject(vm, d, args)
    \/ \E vm \in VMs, t \in VmStorageTypes : SetVmStorageType(vm, t)

Spec == Init /\ [][Next]_vars

\* ------------------------------------- SpecConc: threads of the Pyro daemon
\* getObject is exposed without locking (line 41; create, line 149, is exposed
\* with locking=True), so the daemon's threads run it concurrently and may be
\* switched between any two of its statements.

\* A thread enters getObject (lines 41-66).
Call(t, vm, disk_id, args) ==
    /\ frames[t].pc = "idle"
    /\ frames' = [frames EXCEPT ![t] = StartFrame(vm, disk_id, args)]
    /\ everDisabled' = (everDisabled \/ frames'[t].disable_cache)
    /\ UNCHANGED <<CACHED_OBJECTS, vm_config, pyro_initialised, nextId,
                   registered, last, lastNoOv, evicted, volume>>

\* A thread runs the next statement of its call (lines 70-82).
Exec(t) ==
    /\ frames[t].pc \notin {"idle", "done"}
    /\ LET r == Step(frames[t], Shared)
       IN  /\ r.s.nextId <= MaxObjects
           /\ frames' = [frames EXCEPT ![t] = r.f]
           /\ CACHED_OBJECTS' = r.s.cache
           /\ nextId' = r.s.nextId
           /\ registered' = r.s.registered
    /\ UNCHANGED <<vm_config, pyro_initialised, last, lastNoOv, evicted,
                   everDisabled, volume>>

\* The call's result has been handed to the caller; the thread is free again.
Finish(t) ==
    /\ frames[t].pc = "done"
    /\ frames' = [frames EXCEPT ![t] = IdleFrame]
    /\ UNCHANGED <<CACHED_OBJECTS, vm_config, pyro_initialised, nextId,
                   registered, last, lastNoOv, evicted, everDisabled, volume>>

NextConc ==
    \/ \E t \in Threads, vm \in VMs, d \in DiskIds, args \in Configs :
          Call(t, vm, d, args)
    \/ \E t \in Threads : Exec(t)
    \/ \E t \in Threads : Finish(t)

SpecConc == Init /\ [][NextConc]_vars

\* ---------------------------------------- ensure_hdd_valid and create
\* The collaborators (the hard-drive classes' isAvailable, the storage
\* factory, the storage backends, the auth object) answer each query with any
\* of their possible answers; a run is the log of the queries made, in order,
\* with the answers given, and the raise that ended it, if any.

LocalNode == "n1"
Nodes == <<"n1", "n2", "n3">>
\* The values vm_object.getAvailableNodes() takes.
NodeLists == {<<"n1">>, <<"n2">>, <<"n1", "n2">>, <<"n1", "n2", "n3">>}
Backends == <<"b1", "b2">>
DrbdCapable == {"b2"}
TypeNames == {STORAGE_TYPES[i] : i \in DOMAIN STORAGE_TYPES}
Sizes == 1..MaxSize
FreeSpaces == 0..MaxFree

Ev(e, node, arg, ans) == [e |-> e, node |-> node, arg |-> arg, ans |-> ans]

\* Factory._getAvailableStorageTypes: the classes of STORAGE_TYPES, in
\* order, whose isAvailable answers true (avail is the set of those).
getAvailableStorageTypes(avail) ==
    LET IsAvailable(t) == t \in avail IN SelectSeq(STORAGE_TYPES, IsAvailable)

\* Mutant of CheckStorageType: with several types available the first is
\* taken instead of raising.
CheckStorageTypeFirst(storage_type, available_storage_types) ==
    LET names == {available_storage_types[i] :
                     i \in DOMAIN available_storage_types}
    IN  IF Truthy(storage_type)
        THEN IF storage_type \notin names
             THEN [raised |-> "UnknownStorageType", line |-> 96,
                   storage_type |-> storage_type]
             ELSE [raised |-> "none", line |-> 0, storage_type |-> storage_type]
        ELSE IF Len(available_storage_types) >= 1
             THEN [raised |-> "none", line |-> 0,
                   storage_type |-> available_storage_types[1]]
             ELSE [raised |-> "UnknownStorageType", line |-> 106,
                   storage_type |-> storage_type]

\* Mutant of CheckStorageType: an explicit type is taken as it is given.
CheckStorageTypeUnchecked(storage_type, available_storage_types) ==
    IF Truthy(storage_type)
    THEN [raised |-> "none", line |-> 0, storage_type |-> storage_type]
    ELSE IF Len(available_storage_types) > 1
         THEN [raised |-> "UnknownStorageType", line |-> 102,
               storage_type |-> storage_type]
         ELSE IF Len(available_storage_types) = 1
              THEN [raised |-> "none", line |-> 0,
                    storage_type |-> available_storage_types[1]]
              ELSE [raised |-> "UnknownStorageType", line |-> 106,
                    storage_type |-> storage_type]

\* ensure_hdd_valid lines 93-106: the storage type checked against, or
\* chosen from, the node's available storage types.
CheckStorageType(storage_type, available_storage_types) ==
    LET names == {available_storage_types[i] :
                     i \in DOMAIN available_storage_types}
    IN  IF Truthy(storage_type)
        THEN IF storage_type \notin names
             THEN [raised |-> "UnknownStorageType", line |-> 96,
                   storage_type |-> storage_type]
             ELSE [raised |-> "none", line |-> 0, storage_type |-> storage_type]
        ELSE IF Len(available_storage_types) > 1
             THEN [raised |-> "UnknownStorageType", line |-> 102,
                   storage_type |-> storage_type]
             ELSE IF Len(available_storage_types) = 1
                  THEN [raised |-> "none", line |-> 0,
                        storage_type |-> available_storage_types[1]]
                  ELSE [raised |-> "UnknownStorageType", line |-> 106,
                        storage_type |-> storage_type]

\* storage_factory.get_all(nodes=nodes, drbd=drbd): of the backends present
\* on all the nodes asked for (pool), the replicated-capable ones when drbd.
get_all(pool, drbd) ==
    LET Fits(b) == b \in pool /\ (drbd => b \in DrbdCapable)
    IN  SelectSeq(Backends, Fits)

\* Mutant of PickStorageBackend: of several candidates the first is taken.
PickFirstStorageBackend(available_storage_backends) ==
    IF Len(available_storage_backends) >= 1
    THEN [raised |-> "none", line |-> 0,
          storage_backend |-> available_storage_backends[1]]
    ELSE [raised |-> "UnknownStorageBackend", line |-> 124,
          storage_backend |-> None]

\* ensure_hdd_valid lines 119-124: exactly one candidate backend.
PickStorageBackend(available_storage_backends) ==
    IF Len(available_storage_backends) > 1
    THEN [raised |-> "UnknownStorageBackend", line |-> 120,
          storage_backend |-> None]
    ELSE IF Len(available_storage_backends) = 1
         THEN [raised |-> "none", line |-> 0,
               storage_backend |-> available_storage_backends[1]]
         ELSE [raised |-> "UnknownStorageBackend", line |-> 124,
               storage_backend |-> None]

\* Mutant of InsufficientSpace: free space equal to the size is refused.
InsufficientSpaceInclusive(free, size) == free <= size

\* ensure_hdd_valid line 127: if free < size.
InsufficientSpace(free, size) == free < size

Raise(run, log, name, line, node) ==
    [run EXCEPT !.log = log, !.raised = name, !.line = line, !.node = node]

\* ensure_hdd_valid lines 126-130 on a node, with the backend decided.
CapacityStage(node, size, run) ==
    { LET log == Append(run.log,
                        Ev("get_free_space", node, run.storage_backend, free))
      IN  IF InsufficientSpace(free, size)
          THEN Raise(run, log, "InsufficientSpace", 128, node)
          ELSE [run EXCEPT !.log = log]
      : free \in FreeSpaces }

\* ensure_hdd_valid lines 108-124 on a node, with the type decided.
BackendStage(node, size, nodes, run) ==
    IF run.storage_backend # None
    THEN UNION {
           LET log == Append(run.log, Ev("ensure_available_on_node", node,
                                         run.storage_backend, ok))
           IN  IF ~ok
               THEN {Raise(run, log, "StorageBackendNotAvailableOnNode", 110,
                           node)}
               ELSE CapacityStage(node, size, [run EXCEPT !.log = log])
           : ok \in BOOLEAN }
    ELSE UNION {
           LET drbd == (run.storage_type = "Drbd")
               available_storage_backends == get_all(pool, drbd)
               log == Append(run.log, Ev("get_all", node, <<nodes, drbd>>,
                                         available_storage_backends))
               p == PickStorageBackend(available_storage_backends)
           IN  IF p.raised # "none"
               THEN {Raise(run, log, p.raised, p.line, node)}
               ELSE CapacityStage(node, size,
                        [run EXCEPT !.log = log,
                                    !.storage_backend = p.storage_backend])
           : pool \in SUBSET {Backends[i] : i \in DOMAIN Backends} }

\* ensure_hdd_valid lines 92-130 on a node: the type, the backend, the space.
ValidateOnNode(node, size, storage_type, nodes, storage_backend, log0) ==
    UNION {
      LET log == Append(log0, Ev("isAvailable", node, storage_type, avail))
          t == CheckStorageType(storage_type, getAvailableStorageTypes(avail))
          run == [log |-> log, raised |-> "none", line |-> 0, node |-> node,
                  storage_type |-> t.storage_type,
                  storage_backend |-> storage_backend]
      IN  IF t.raised # "none"
          THEN {Raise(run, log, t.raised, t.line, node)}
          ELSE BackendStage(node, size, nodes, run)
      : avail \in SUBSET TypeNames }

\* Mutant of RemoteNodes: only the first of the other nodes is addressed.
RemoteNodesFirstOnly(nodes) ==
    LET IsRemote(n) == n # LocalNode
        others == SelectSeq(nodes, IsRemote)
    IN  IF others = <<>> THEN <<>> ELSE <<Head(others)>>

\* ensure_hdd_valid line 144: the nodes other than the local one.
RemoteNodes(nodes) ==
    LET IsRemote(n) == n # LocalNode IN SelectSeq(nodes, IsRemote)

\* Mutant of remote_command: the remote node is asked to create the disk,
\* not only to validate it.
RemoteCommandCreates(n, size, nodes, run) ==
    { IF r.raised # "none" THEN r
      ELSE [r EXCEPT !.log = r.log \o
                       << Ev("construct", n, r.storage_type, r.storage_backend),
                          Ev("register", n, r.storage_type, r.storage_backend),
                          Ev("volume_create", n, r.storage_backend, size) >>]
      : r \in ValidateOnNode(n, size, run.storage_type, nodes,
                             run.storage_backend,
                             Append(run.log, Ev("get_object", n,
                                                run.storage_backend,
                                                run.storage_backend))) }

\* remote_command (lines 133-141) on the connection to node n: that node's
\* backend of the same name is looked up and that node's ensure_hdd_valid is
\* called with it and with the type and size decided here.  A remote node is
\* not the cluster master of the call, so its ensure_hdd_valid ends at line
\* 130.
remote_command(n, size, nodes, run) ==
    ValidateOnNode(n, size, run.storage_type, nodes, run.storage_backend,
                   Append(run.log, Ev("get_object", n, run.storage_backend,
                                      run.storage_backend)))

RECURSIVE RunRemoteCommand(_, _, _, _, _)
\* cluster.run_remote_command(callback_method, nodes) (line 145): the
\* callback is run against each node in turn and the first raise ends the
\* run, surfacing at the caller.
RunRemoteCommand(remote_nodes, size, nodes, run, local) ==
    IF remote_nodes = <<>> THEN {[run EXCEPT !.node = local]}
    ELSE LET n == Head(remote_nodes)
         IN  UNION {
               IF r.raised # "none"
               THEN {Raise(run, r.log, r.raised, r.line, n)}
               ELSE RunRemoteCommand(Tail(remote_nodes), size, nodes,
                                     [run EXCEPT !.log = r.log], local)
               : r \in remote_command(n, size, nodes, run) }

\* Mutant of ensure_hdd_valid: the other nodes are asked by every node, the
\* cluster master or not.
EnsureHddValidFansOutAlways(size, storage_type, nodes, storage_backend, master, log0) ==
    UNION {
      IF r.raised # "none"
      THEN {r}
      ELSE RunRemoteCommand(RemoteNodes(nodes), size, nodes, r, LocalNode)
      : r \in ValidateOnNode(LocalNode, size, storage_type, nodes,
                             storage_backend, log0) }

\* Mutant of ensure_hdd_valid: a raise on a remote node is not passed on.
EnsureHddValidSwallowsRemote(size, storage_type, nodes, storage_backend, master, log0) ==
    UNION {
      IF r.raised # "none" \/ ~master
      THEN {r}
      ELSE { [x EXCEPT !.raised = "none", !.line = 0, !.node = LocalNode]
             : x \in RunRemoteCommand(RemoteNodes(nodes), size, nodes, r,
                                      LocalNode) }
      : r \in ValidateOnNode(LocalNode, size, storage_type, nodes,
                             storage_backend, log0) }

\* Factory.ensure_hdd_valid(size, storage_type, nodes, storage_backend) on the
\* local node: the set of its possible runs; master is self._is_cluster_master
\* (line 132).  A run that has not raised returns run.storage_type (line 147).
ensure_hdd_valid(size, storage_type, nodes, storage_backend, master, log0) ==
    UNION {
      IF r.raised # "none" \/ ~master
      THEN {r}
      ELSE RunRemoteCommand(RemoteNodes(nodes), size, nodes, r, LocalNode)
      : r \in ValidateOnNode(LocalNode, size, storage_type, nodes,
                             storage_backend, log0) }

\* Mutant of StorageTypeMismatch: the VM's storage type is never compared.
StorageTypeMismatchNever(vm_storage_type, storage_type) == FALSE

\* Mutant of StorageTypeMismatch: the comparison is inverted.
StorageTypeMismatchInverted(vm_storage_type, storage_type) ==
    Truthy(vm_storage_type) /\ Truthy(storage_type)
        /\ storage_type = vm_storage_type

\* create lines 164-168: the VM's storage type against the validated one.
StorageTypeMismatch(vm_storage_type, storage_type) ==
    Truthy(vm_storage_type) /\ Truthy(storage_type)
        /\ storage_type # vm_storage_type

\* create lines 163-174, after a validation that returned storage_type: the
\* object is constructed with the storage_backend argument of create.
Provision(run, vm_storage_type, storage_type, size, storage_backend) ==
    IF StorageTypeMismatch(vm_storage_type, storage_type)
    THEN Raise(run, run.log, "UnknownStorageType", 166, LocalNode)
    ELSE LET c == getClass(storage_type)
         IN  IF c.raised
             THEN Raise(run, run.log, "UnknownStorageType", 195, LocalNode)
             ELSE [run EXCEPT
                     !.log = run.log \o
                       << Ev("construct", LocalNode, c.cls, storage_backend),
                          Ev("register", LocalNode, c.cls, storage_backend),
                          Ev("volume_create", LocalNode, storage_backend,
                             size) >>]

\* Mutant of create: the answer of the permission check is not acted on.
createUnchecked(vm_storage_type, size, storage_type, nodes, storage_backend, master) ==
    UNION {
      { IF v.raised # "none" THEN v
        ELSE Provision(v, vm_storage_type, v.storage_type, size,
                       storage_backend)
        : v \in ensure_hdd_valid(size, storage_type, nodes, storage_backend,
                 master,
                 <<Ev("assert_permission", LocalNode, "MODIFY_VM", permitted)>>) }
      : permitted \in BOOLEAN }

\* Factory.create(vm_object, size, storage_type, driver, storage_backend): the
\* set of its possible runs.
create(vm_storage_type, size, storage_type, nodes, storage_backend, master) ==
    UNION {
      LET log == <<Ev("assert_permission", LocalNode, "MODIFY_VM", permitted)>>
      IN  IF ~permitted
          THEN {[log |-> log, raised |-> "InsufficientPermissions", line |-> 155,
                 node |-> LocalNode, storage_type |-> storage_type,
                 storage_backend |-> storage_backend]}
          ELSE { IF v.raised # "none" THEN v
                 ELSE Provision(v, vm_storage_type, v.storage_type, size,
                                storage_backend)
                 : v \in ensure_hdd_valid(size, storage_type, nodes,
                                          storage_backend, master, log) }
      : permitted \in BOOLEAN }

Has(log, e) == \E i \in DOMAIN log : log[i].e = e

\* A call of Factory.create on the local node.
Create(vm, size, storage_type, nodes, storage_backend, is_cluster_master) ==
    /\ last.op = "none"
    /\ nextId < MaxObjects
    /\ \E run \in create(vm_config[vm], size, storage_type, nodes,
                         storage_backend, is_cluster_master) :
          /\ last' = [op |-> "create", vm |-> vm,
                      vm_storage_type |-> vm_config[vm], size |-> size,
                      storage_type |-> storage_type, nodes |-> nodes,
                      storage_backend |-> storage_backend,
                      is_cluster_master |-> is_cluster_master, run |-> run,
                      cache0 |-> CACHED_OBJECTS, nextId0 |-> nextId,
                      registered0 |-> registered]
          /\ nextId' = IF Has(run.log, "construct") THEN nextId + 1 ELSE nextId
          /\ registered' = IF Has(run.log, "register")
                           THEN RegisterObject(registered, pyro_initialised,
                                               nextId + 1)
                           ELSE registered
    /\ UNCHANGED <<CACHED_OBJECTS, vm_config, pyro_initialised, lastNoOv,
                   evicted, frames, everDisabled, volume>>

\* A call of Factory.ensure_hdd_valid on the local node.
EnsureHddValid(size, storage_type, nodes, storage_backend, is_cluster_master) ==
    /\ last.op = "none"
    /\ \E run \in ensure_hdd_valid(size, storage_type, nodes, storage_backend,
                                   is_cluster_master, <<>>) :
          last' = [op |-> "ensure_hdd_valid", vm |-> "",
                   vm_storage_type |-> None, size |-> size,
                   storage_type |-> storage_type, nodes |-> nodes,
                   storage_backend |-> storage_backend,
                   is_cluster_master |-> is_cluster_master, run |-> run,
                   cache0 |-> CACHED_OBJECTS, nextId0 |-> nextId,
                   registered0 |-> registered, volume0 |-> volume]
    /\ UNCHANGED <<CACHED_OBJECTS, vm_config, pyro_initialised, nextId,
                   registered, lastNoOv, evicted, frames, everDisabled, volume>>

\* The caller has the result (or the exception) of its call.
Return ==
    /\ last.op \in {"create", "ensure_hdd_valid"}
    /\ last' = NoCall
    /\ UNCHANGED <<CACHED_OBJECTS, vm_config, pyro_initialised, nextId,
                   registered, lastNoOv, evicted, frames, everDisabled, volume>>

CreateStorageTypeArgs == {None, "Local", "Drbd", "Bogus"}
BackendArgs == {None} \cup {Backends[i] : i \in DOMAIN Backends}

NextCreate ==
    \/ \E vm \in VMs, size \in Sizes, st \in CreateStorageTypeArgs,
          nodes \in NodeLists, b \in BackendArgs, m \in BOOLEAN :
          Create(vm, size, st, nodes, b, m)
    \/ \E size \in Sizes, st \in CreateStorageTypeArgs,
          nodes \in NodeLists, b \in BackendArgs, m \in BOOLEAN :
          EnsureHddValid(size, st, nodes, b, m)
    \/ Return

SpecCreate == Init /\ [][NextCreate]_vars

\* ------------------------------------------ SpecFactory: the whole Factory
\* getObject, ensure_hdd_valid and create of one Factory, one call at a time:
\* the result of a create or an ensure_hdd_valid is with its caller (Return)
\* before the next call is made.
NextFactory ==
    \/ NextCreate
    \/ \E vm \in VMs, d \in DiskIds, args \in Configs :
          /\ last.op \notin {"create", "ensure_hdd_valid"}
          /\ GetObject(vm, d, args)

SpecFactory == Init /\ [][NextFactory]_vars

\* ------------------------------------------- volumes (storage/lvm.py)
\* A volume operation runs external commands on the volume as LVM holds it;
\* a result is the volume afterwards, the commands run with their exits, and
\* the return or the raise.

Cmd(tool, arg, ok) == [tool |-> tool, arg |-> arg, ok |-> ok]

\* An LVM tool run on volume v: every command may exit non-zero, leaving the
\* volume as it was; lvcreate makes a volume that does not exist yet, with
\* the size given, lvremove removes an existing one, lvresize --size sets the
\* size of an existing one, lvchange, lvcreate --snapshot and lvs leave an
\* existing one as it is, lvs printing its size in megabytes with decimals.
RunTool(tool, arg, v) ==
    LET Ok(w, out) == [ok |-> TRUE, volume |-> w, out |-> out]
    IN  {[ok |-> FALSE, volume |-> v, out |-> <<>>]} \cup
        CASE tool = "lvcreate" ->
               IF v.exists THEN {}
               ELSE {Ok([exists |-> TRUE, size |-> arg], <<>>)}
          [] tool = "lvremove" ->
               IF v.exists THEN {Ok(NoVolume, <<>>)} ELSE {}
          [] tool = "lvresize" ->
               IF v.exists THEN {Ok([v EXCEPT !.size = arg], <<>>)} ELSE {}
          [] tool = "lvs" ->
               IF v.exists THEN {Ok(v, <<v.size, 0>>)} ELSE {}
          [] OTHER ->
               IF v.exists THEN {Ok(v, <<>>)} ELSE {}

\* System.runCommand(command_args): what the caller gets of a run t of the
\* command; a non-zero exit is raised as MCVirtCommandException.
runCommand(t) == IF t.ok THEN "returned" ELSE "MCVirtCommandException"

\* try: ... except MCVirtCommandException, exc: raise
\* ExternalStorageCommandErrorException(...), on what the try block came to.
ExceptMCVirtCommandException(outcome) ==
    IF outcome = "MCVirtCommandException"
    THEN "ExternalStorageCommandError" ELSE outcome

VolumeResult(v, commands, outcome, ret) ==
    [volume |-> v, commands |-> commands, outcome |-> outcome, ret |-> ret]

\* LvmVolume.check_exists: os.path.lexists(self.get_path()).
check_exists(v) == v.exists

\* LvmVolume.create(size).
LvmVolume_create(v, size) ==
    { VolumeResult(t.volume, <<Cmd("lvcreate", size, t.ok)>>,
                   ExceptMCVirtCommandException(runCommand(t)), None)
      : t \in RunTool("lvcreate", size, v) }

\* Mutant of DeleteRunsCommand: the removal command is always run.
DeleteRunsCommandAlways(ignore_non_existent, exists) == TRUE

\* LvmVolume.delete lines 89-90: not (ignore_non_existent and not
\* self.check_exists()).
DeleteRunsCommand(ignore_non_existent, exists) ==
    ~(ignore_non_existent /\ ~exists)

\* LvmVolume.delete(ignore_non_existent).
LvmVolume_delete(v, ignore_non_existent) ==
    IF DeleteRunsCommand(ignore_non_existent, check_exists(v))
    THEN { VolumeResult(t.volume, <<Cmd("lvremove", 0, t.ok)>>,
                        ExceptMCVirtCommandException(runCommand(t)), None)
           : t \in RunTool("lvremove", 0, v) }
    ELSE {VolumeResult(v, <<>>, "returned", None)}

\* LvmVolume.activate().
LvmVolume_activate(v) ==
    { VolumeResult(t.volume, <<Cmd("lvchange", 0, t.ok)>>,
                   ExceptMCVirtCommandException(runCommand(t)), None)
      : t \in RunTool("lvchange", 0, v) }

\* LvmVolume.snapshot(destination_volume, size): runCommand outside any try.
LvmVolume_snapshot(v, size) ==
    { VolumeResult(t.volume, <<Cmd("lvcreate --snapshot", size, t.ok)>>,
                   runCommand(t), None)
      : t \in RunTool("lvcreate --snapshot", size, v) }

\* The ways a caller passes the keyword argument increase, or leaves it out.
IncreaseArgs == {"unset", "True", "False"}

\* LvmVolume.resize(self, size): the method takes no keyword increase, so a
\* call that passes one is a TypeError before the body runs.
LvmVolume_resize(v, size, increase) ==
    IF increase # "unset"
    THEN {VolumeResult(v, <<>>, "TypeError", None)}
    ELSE { VolumeResult(t.volume, <<Cmd("lvresize", size, t.ok)>>,
                        ExceptMCVirtCommandException(runCommand(t)), None)
           : t \in RunTool("lvresize", size, v) }

\* LvmVolume.get_size(): the part before the '.' of the output of lvs.
LvmVolume_get_size(v) ==
    { VolumeResult(t.volume, <<Cmd("lvs", 0, t.ok)>>,
                   ExceptMCVirtCommandException(runCommand(t)),
                   IF t.ok THEN t.out[1] ELSE None)
      : t \in RunTool("lvs", 0, v) }

\* Base._ensure_exists on Local._check_exists (lines 77-80).
ensure_exists(v) ==
    IF check_exists(v) THEN "returned" ELSE "HardDriveDoesNotExistException"

\* Mutant of IsClone: only the clone parent is looked at.
IsCloneParentOnly(clone_parent, clone_children) == clone_parent

\* increase_size line 70: getCloneParent() or getCloneChildren().
IsClone(clone_parent, clone_children) == clone_parent \/ clone_children

\* Local.increase_size(increase_size), with an int argument, for a VM whose
\* auth, is_stopped, getCloneParent and getCloneChildren answer as given.
increase_size(v, size, permitted, is_stopped, clone_parent, clone_children) ==
    IF ~permitted
    THEN {VolumeResult(v, <<>>, "InsufficientPermissions", None)}
    ELSE IF ensure_exists(v) # "returned"
    THEN {VolumeResult(v, <<>>, ensure_exists(v), None)}
    ELSE IF ~is_stopped
    THEN {VolumeResult(v, <<>>, "VmAlreadyStarted", None)}
    ELSE IF IsClone(clone_parent, clone_children)
    THEN {VolumeResult(v, <<>>, "VmIsClone", None)}
    ELSE LvmVolume_resize(v, size, "True")

\* Mutant of NotMigratable: the test of the flag is inverted.
NotMigratableInverted(shared) == shared

\* preMigrationChecks line 124: if not self.storage_backend.shared.
NotMigratable(shared) == ~shared

\* Local.preMigrationChecks(), for a disk on volume v whose storage backend
\* has the given shared flag.
preMigrationChecks(v, shared) ==
    IF NotMigratable(shared)
    THEN VolumeResult(v, <<>>, "CannotMigrateLocalDisk", None)
    ELSE VolumeResult(v, <<>>, "returned", None)

\* ------------------------------------------------------------ SpecVolume
NoVm ==
    [permitted |-> TRUE, is_stopped |-> TRUE, clone_parent |-> FALSE,
     clone_children |-> FALSE]

\* The state after a call op(size, ignore_non_existent, increase) that came
\* to result r; vm holds the answers the VM and auth objects had to give.
VolumeCall(op, size, ignore_non_existent, increase, vm, r) ==
    /\ volume' = r.volume
    /\ last' = [op |-> op, size |-> size,
                ignore_non_existent |-> ignore_non_existent,
                increase |-> increase, vm |-> vm, before |-> volume,
                commands |-> r.commands, outcome |-> r.outcome, ret |-> r.ret]
    /\ UNCHANGED <<CACHED_OBJECTS, vm_config, pyro_initialised, nextId,
                   registered, lastNoOv, evicted, frames, everDisabled>>

VolumeCreate(size) ==
    \E r \in LvmVolume_create(volume, size) :
        VolumeCall("create", size, FALSE, "unset", NoVm, r)

VolumeDelete(ignore_non_existent) ==
    \E r \in LvmVolume_delete(volume, ignore_non_existent) :
        VolumeCall("delete", 0, ignore_non_existent, "unset", NoVm, r)

VolumeActivate ==
    \E r \in LvmVolume_activate(volume) :
        VolumeCall("activate", 0, FALSE, "unset", NoVm, r)

VolumeSnapshot(size) ==
    \E r \in LvmVolume_snapshot(volume, size) :
        VolumeCall("snapshot", size, FALSE, "unset", NoVm, r)

VolumeResize(size, increase) ==
    \E r \in LvmVolume_resize(volume, size, increase) :
        VolumeCall("resize", size, FALSE, increase, NoVm, r)

VolumeGetSize ==
    \E r \in LvmVolume_get_size(volume) :
        VolumeCall("get_size", 0, FALSE, "unset", NoVm, r)

IncreaseSize(size, permitted, is_stopped, clone_parent, clone_children) ==
    \E r \in increase_size(volume, size, permitted, is_stopped, clone_parent,
                           clone_children) :
        VolumeCall("increase_size", size, FALSE, "True",
                   [permitted |-> permitted, is_stopped |-> is_stopped,
                    clone_parent |-> clone_parent,
                    clone_children |-> clone_children], r)

PreMigrationChecks(shared) ==
    VolumeCall("preMigrationChecks", 0, FALSE, "unset", [shared |-> shared],
               preMigrationChecks(volume, shared))

NextVolume ==
    \/ \E size \in Sizes : VolumeCreate(size)
    \/ \E ignore_non_existent \in BOOLEAN : VolumeDelete(ignore_non_existent)
    \/ VolumeActivate
    \/ \E size \in Sizes : VolumeSnapshot(size)
    \/ \E size \in Sizes, increase \in IncreaseArgs :
          VolumeResize(size, increase)
    \/ VolumeGetSize
    \/ \E size \in Sizes, permitted, is_stopped, clone_parent,
          clone_children \in BOOLEAN :
          IncreaseSize(size, permitted, is_stopped, clone_parent,
                       clone_children)
    \/ \E shared \in BOOLEAN : PreMigrationChecks(shared)

SpecVolume == Init /\ [][NextVolume]_vars

\* ----------------------------------------------------------------- claims

LastIsGetObject == last.op = "getObject"

\* C1. Cache identity: a no-override getObject for a key whose previous
\* no-override lookup returned an instance (with the VM's configured storage
\* type unchanged and no cache-disabling lookup of the key since) returns that
\* same instance and constructs nothing; the first no-override lookup of a key
\* that is not cached constructs the object and stores it.
C1_CacheIdentity ==
    (LastIsGetObject /\ last.f.args = EmptyConfig) =>
        /\ last.prevRet # NoObject =>
              /\ last.f.outcome = "returned"
              /\ last.f.ret = last.prevRet
              /\ ~last.f.constructed
        /\ (last.cachedBefore = NoObject /\ last.f.outcome = "returned") =>
              /\ last.f.constructed
              /\ last.f.ret = last.f.hard_drive_object
              /\ CACHED_OBJECTS[last.f.cache_key] = last.f.ret

C1_Witness ==
    /\ LastIsGetObject /\ last.f.args = EmptyConfig
    /\ last.prevRet # NoObject
    /\ last.f.ret = last.prevRet

\* C2. Cache-disabling lookup: a getObject with an override other than
\* storage_type leaves no entry under its key, and when it returns (the
\* resolved type names a hard-drive class) the object is newly constructed
\* and is not the instance cached before; the next cache-enabled lookup of
\* that key constructs a new object; an override of storage_type alone does
\* not disable caching, the returned object being the cached one.
C2_CacheDisablingLookup ==
    LastIsGetObject =>
        /\ last.f.disable_cache = (DOMAIN last.f.args \ {"storage_type"} # {})
        /\ last.f.disable_cache =>
              /\ last.f.cache_key \notin DOMAIN CACHED_OBJECTS
              /\ (last.f.outcome = "returned") =
                    (last.f.storage_type \in {"Local", "Drbd"})
              /\ last.f.outcome = "returned" =>
                    /\ last.f.constructed
                    /\ last.f.ret = nextId
                    /\ last.f.ret # last.cachedBefore
        /\ (~last.f.disable_cache /\ last.afterEvict
              /\ last.f.outcome = "returned") =>
              /\ last.f.constructed
              /\ last.f.ret # last.cachedBefore
        /\ (~last.f.disable_cache /\ last.f.outcome = "returned") =>
              CACHED_OBJECTS[last.f.cache_key] = last.f.ret

\* A cached instance was evicted by a cache-disabling lookup that returned.
C2_Witness ==
    /\ LastIsGetObject /\ last.f.disable_cache
    /\ last.cachedBefore # NoObject
    /\ last.f.outcome = "returned"

\* C5. Storage-type resolution in getObject: an explicit storage_type
\* override wins over the VM's configured type, which is used only when no
\* override is given; the resolved type makes the cache key and the class.
C5_ExplicitOverrideWins ==
    LastIsGetObject =>
        /\ last.f.storage_type =
              IF "storage_type" \in DOMAIN last.f.args
              THEN last.f.args["storage_type"]
              ELSE last.f.vm_storage_type
        /\ last.f.cache_key =
              CacheKey(last.f.vm, last.f.disk_id, last.f.storage_type)
        /\ last.f.constructed => last.f.cls = last.f.storage_type

\* C3. At most one representative under concurrency: with no cache-disabling
\* lookup involved, the no-override calls that have returned for one key
\* returned the same instance, and no two of them each constructed an object.
C3_AtMostOneRepresentative ==
    ~everDisabled =>
        \A t1, t2 \in Threads :
            ( /\ t1 # t2
              /\ frames[t1].pc = "done" /\ frames[t2].pc = "done"
              /\ frames[t1].args = EmptyConfig /\ frames[t2].args = EmptyConfig
              /\ frames[t1].cache_key = frames[t2].cache_key
              /\ frames[t1].outcome = "returned"
              /\ frames[t2].outcome = "returned" ) =>
                /\ frames[t1].ret = frames[t2].ret
                /\ ~(frames[t1].constructed /\ frames[t2].constructed)

\* C4. Safe lookup against concurrent eviction: a no-override call that
\* found its key present at line 73 returns a hard-drive object.
C4_LookupSurvivesEviction ==
    \A t \in Threads :
        (frames[t].pc = "done" /\ frames[t].args = EmptyConfig
            /\ frames[t].found_present) =>
            frames[t].outcome = "returned"

\* ------------------------------------------- claims on validation, create

\* The positions in the last call's log of the queries e made at node n.
EvAt(e, n) ==
    {i \in DOMAIN last.run.log :
        last.run.log[i].e = e /\ last.run.log[i].node = n}

AnsAt(e, n) == last.run.log[CHOOSE i \in EvAt(e, n) : TRUE].ans
ArgAt(e, n) == last.run.log[CHOOSE i \in EvAt(e, n) : TRUE].arg

\* The last call ran ensure_hdd_valid on the local node.
Validated ==
    /\ last.op \in {"create", "ensure_hdd_valid"}
    /\ EvAt("isAvailable", LocalNode) # {}

RaisedAt(name, line, node) ==
    /\ last.run.raised = name
    /\ last.run.line = line
    /\ last.run.node = node

\* The local ensure_hdd_valid of the last call returned (line 147).
ValidationReturned ==
    Validated /\ (last.run.raised = "none" \/ last.run.line \in {166, 195})

\* The type check of lines 93-106 on the local node passed.
TypePassed ==
    Validated /\ ~(last.run.node = LocalNode /\ last.run.line \in {96, 102, 106})

\* C6 as stated. With no explicit storage_type and a storage type in the
\* VM's configuration, create resolves the VM's configured type; automatic
\* selection and its ambiguity error do not apply.
C6_VmConfiguredTypeResolves ==
    ( /\ last.op = "create" /\ Validated
      /\ ~Truthy(last.storage_type)
      /\ Truthy(last.vm_storage_type) ) =>
        /\ last.run.line \notin {102, 106}
        /\ last.run.storage_type = last.vm_storage_type

\* C6 as amended. With no explicit storage_type, create resolves by
\* automatic selection from the node's available types whatever the VM's
\* configuration holds: the ambiguity error with none or several available,
\* else the single available type; a resolved type that differs from the
\* VM's configured type makes create raise UnknownStorageType (line 166), so
\* what create provisions for a VM with a configured type has that type.
C6_AutoSelectionIgnoresVmConfig ==
    ( /\ last.op = "create" /\ Validated
      /\ ~Truthy(last.storage_type) ) =>
        LET avail == AnsAt("isAvailable", LocalNode)
        IN  /\ Cardinality(avail) > 1 =>
                  RaisedAt("UnknownStorageType", 102, LocalNode)
            /\ Cardinality(avail) = 0 =>
                  RaisedAt("UnknownStorageType", 106, LocalNode)
            /\ Cardinality(avail) = 1 => avail = {last.run.storage_type}
            /\ ( /\ ValidationReturned
                 /\ Truthy(last.vm_storage_type)
                 /\ last.run.storage_type # last.vm_storage_type ) =>
                  RaisedAt("UnknownStorageType", 166, LocalNode)
            /\ ( /\ EvAt("volume_create", LocalNode) # {}
                 /\ Truthy(last.vm_storage_type) ) =>
                  last.run.storage_type = last.vm_storage_type

\* create, with no explicit type, selected a type the VM is not configured for.
C6_Witness ==
    /\ last.op = "create" /\ ValidationReturned
    /\ ~Truthy(last.storage_type)
    /\ last.vm_storage_type = "Drbd"
    /\ last.run.storage_type = "Local"
    /\ RaisedAt("UnknownStorageType", 166, LocalNode)

\* What the type check of a node comes to, as the claim words it.
ExpectedType(storage_type, avail) ==
    IF Truthy(storage_type)
    THEN IF storage_type \in avail THEN <<"resolved", storage_type>>
         ELSE <<"raised", "UnknownStorageType">>
    ELSE IF Cardinality(avail) = 1
         THEN <<"resolved", CHOOSE t \in avail : TRUE>>
         ELSE <<"raised", "UnknownStorageType">>

\* C7. Ambiguity rejection: with no storage type, ensure_hdd_valid raises
\* UnknownStorageType when the node reports no available variant or several,
\* and resolves (and on success returns) the single available one; the
\* outcome of the type check is a function of the explicit type and the set
\* of available types alone.
C7_AmbiguityRejection ==
    Validated =>
        LET avail == AnsAt("isAvailable", LocalNode)
        IN  /\ (IF TypePassed THEN <<"resolved", last.run.storage_type>>
                ELSE <<"raised", last.run.raised>>)
                  = ExpectedType(last.storage_type, avail)
            /\ (~Truthy(last.storage_type) /\ Cardinality(avail) # 1) =>
                  /\ last.run.raised = "UnknownStorageType"
                  /\ last.run.node = LocalNode
                  /\ ~TypePassed
            /\ (~Truthy(last.storage_type) /\ Cardinality(avail) = 1) =>
                  /\ TypePassed
                  /\ avail = {last.run.storage_type}

\* ensure_hdd_valid, given no type, returned the node's single available type.
C7_Witness ==
    /\ last.op = "ensure_hdd_valid" /\ Validated
    /\ ~Truthy(last.storage_type)
    /\ last.run.raised = "none"
    /\ AnsAt("isAvailable", LocalNode) = {last.run.storage_type}

\* The validation on node n of the last call passed all of lines 92-130.
PassedOn(n) ==
    /\ EvAt("get_free_space", n) # {}
    /\ ~(last.run.node = n /\ last.run.line = 128)

\* C8. Type validation: on every node whose validation passed, the type is
\* one that node reports available; an explicit type the node does not
\* report raises UnknownStorageType (line 96) with no backend looked up or
\* checked, no free-space query and no remote node contacted.
C8_TypeValidation ==
    Validated =>
        /\ \A i \in DOMAIN Nodes :
              PassedOn(Nodes[i]) =>
                  last.run.storage_type \in AnsAt("isAvailable", Nodes[i])
        /\ ValidationReturned =>
              last.run.storage_type \in AnsAt("isAvailable", LocalNode)
        /\ ( /\ Truthy(last.storage_type)
             /\ last.storage_type \notin AnsAt("isAvailable", LocalNode) ) =>
              /\ RaisedAt("UnknownStorageType", 96, LocalNode)
              /\ \A i \in DOMAIN last.run.log :
                    last.run.log[i].e \in {"assert_permission", "isAvailable"}
                        /\ last.run.log[i].node = LocalNode

\* An explicit type the node does not report was refused.
C8_Witness ==
    /\ Validated
    /\ Truthy(last.storage_type)
    /\ last.storage_type \in TypeNames
    /\ last.storage_type \notin AnsAt("isAvailable", LocalNode)
    /\ RaisedAt("UnknownStorageType", 96, LocalNode)

\* C9. Backend resolution: a supplied backend is checked for availability on
\* the node and is the one whose free space is read; with none supplied the
\* candidates are asked for the requested nodes, with drbd set exactly when
\* the resolved type is Drbd, and the free space is read, of the single
\* candidate, only when there is exactly one; otherwise UnknownStorageBackend
\* is raised with no free-space query.
C9_BackendResolution ==
    TypePassed =>
        /\ last.storage_backend # None =>
              /\ EvAt("get_all", LocalNode) = {}
              /\ Cardinality(EvAt("ensure_available_on_node", LocalNode)) = 1
              /\ ArgAt("ensure_available_on_node", LocalNode)
                    = last.storage_backend
              /\ IF AnsAt("ensure_available_on_node", LocalNode)
                 THEN /\ EvAt("get_free_space", LocalNode) # {}
                      /\ ArgAt("get_free_space", LocalNode)
                            = last.storage_backend
                 ELSE /\ RaisedAt("StorageBackendNotAvailableOnNode", 110,
                                  LocalNode)
                      /\ EvAt("get_free_space", LocalNode) = {}
        /\ last.storage_backend = None =>
              /\ EvAt("ensure_available_on_node", LocalNode) = {}
              /\ Cardinality(EvAt("get_all", LocalNode)) = 1
              /\ ArgAt("get_all", LocalNode)
                    = <<last.nodes, last.run.storage_type = "Drbd">>
              /\ LET candidates == AnsAt("get_all", LocalNode)
                 IN  IF Len(candidates) = 1
                     THEN /\ EvAt("get_free_space", LocalNode) # {}
                          /\ ArgAt("get_free_space", LocalNode) = candidates[1]
                     ELSE /\ last.run.raised = "UnknownStorageBackend"
                          /\ last.run.node = LocalNode
                          /\ EvAt("get_free_space", LocalNode) = {}
                          /\ \A i \in DOMAIN last.run.log :
                                last.run.log[i].node = LocalNode

\* With no backend supplied and two candidates, validation was refused.
C9_Witness ==
    /\ TypePassed
    /\ last.storage_backend = None
    /\ EvAt("get_all", LocalNode) # {}
    /\ Len(AnsAt("get_all", LocalNode)) = 2
    /\ RaisedAt("UnknownStorageBackend", 120, LocalNode)

\* C10. Capacity gate: a create whose backend reports less free space than
\* the requested size raises InsufficientSpace with no volume created and no
\* remote node contacted; a volume is created only after a free-space answer
\* of at least the size on every node validated, and free space equal to the
\* size passes.
C10_CapacityGate ==
    (last.op = "create" /\ EvAt("get_free_space", LocalNode) # {}) =>
        LET free == AnsAt("get_free_space", LocalNode)
        IN  /\ free < last.size =>
                  /\ RaisedAt("InsufficientSpace", 128, LocalNode)
                  /\ \A i \in DOMAIN last.run.log :
                        /\ last.run.log[i].e # "volume_create"
                        /\ last.run.log[i].node = LocalNode
            /\ free >= last.size =>
                  ~RaisedAt("InsufficientSpace", 128, LocalNode)
            /\ EvAt("volume_create", LocalNode) # {} =>
                  \A i \in DOMAIN last.run.log :
                      last.run.log[i].e = "get_free_space" =>
                          last.run.log[i].ans >= last.size

\* A create was refused for want of space (100 free, 150 asked, in small).
C10_Witness ==
    /\ last.op = "create"
    /\ EvAt("get_free_space", LocalNode) # {}
    /\ AnsAt("get_free_space", LocalNode) < last.size
    /\ RaisedAt("InsufficientSpace", 128, LocalNode)

\* ------------------------------------------------- claims on the fan-out

\* The last call is a create on the cluster coordinator.
CoordinatorCreate == last.op = "create" /\ last.is_cluster_master

Provisioned == last.op = "create" /\ EvAt("volume_create", LocalNode) # {}

\* No hard-drive object was constructed or registered and no volume created
\* by the last create.
NothingProvisioned ==
    /\ \A i \in DOMAIN last.run.log :
          last.run.log[i].e \notin {"construct", "register", "volume_create"}
    /\ nextId = last.nextId0
    /\ registered = last.registered0

\* The error the answers given on node n make its validation fail with.
FailureOn(n) ==
    IF EvAt("isAvailable", n) = {} THEN "none"
    ELSE IF ArgAt("isAvailable", n) \notin AnsAt("isAvailable", n)
         THEN "UnknownStorageType"
    ELSE IF EvAt("ensure_available_on_node", n) # {}
              /\ ~AnsAt("ensure_available_on_node", n)
         THEN "StorageBackendNotAvailableOnNode"
    ELSE IF EvAt("get_free_space", n) # {}
              /\ AnsAt("get_free_space", n) < last.size
         THEN "InsufficientSpace"
    ELSE "none"

RemoteFailed(n) == n # LocalNode /\ FailureOn(n) # "none"

\* C11. Fan-out all-or-nothing: when create runs on the cluster coordinator
\* and the validation of a remote node of the target node set fails (type,
\* backend or capacity), create fails with that node's error, and no
\* hard-drive object is constructed or registered and no volume is created.
C11_FanOutAllOrNothing ==
    CoordinatorCreate =>
        \A i \in DOMAIN Nodes :
            RemoteFailed(Nodes[i]) =>
                /\ last.run.raised = FailureOn(Nodes[i])
                /\ last.run.node = Nodes[i]
                /\ NothingProvisioned

\* Of three target nodes the second passed and the third had too little space.
C11_Witness ==
    /\ CoordinatorCreate
    /\ last.nodes = <<"n1", "n2", "n3">>
    /\ PassedOn("n2")
    /\ RemoteFailed("n3")
    /\ RaisedAt("InsufficientSpace", 128, "n3")

\* Node n passed validation before position p of the log: its backend was
\* looked up on n by the name of the coordinator's backend, and n's type,
\* backend and capacity checks, on the coordinator's type and size, passed.
ValidatedBefore(n, p) ==
    /\ \A e \in {"get_object", "isAvailable", "ensure_available_on_node",
                 "get_free_space"} : Cardinality(EvAt(e, n)) = 1
    /\ LET At(e) == CHOOSE i \in EvAt(e, n) : TRUE
           a == At("get_object")
           b == At("isAvailable")
           c == At("ensure_available_on_node")
           d == At("get_free_space")
       IN  /\ a < b /\ b < c /\ c < d /\ d < p
           /\ last.run.log[a] = Ev("get_object", n, last.run.storage_backend,
                                   last.run.storage_backend)
           /\ last.run.log[b].arg = last.run.storage_type
           /\ last.run.storage_type \in last.run.log[b].ans
           /\ last.run.log[c] = Ev("ensure_available_on_node", n,
                                   last.run.storage_backend, TRUE)
           /\ last.run.log[d].arg = last.run.storage_backend
           /\ last.run.log[d].ans >= last.size

\* C12. Validation barrier: in every create on the cluster coordinator that
\* reaches the volume creation, every node of the target node set other than
\* the local node has before that passed validation, with a backend looked
\* up on that node by name and with the coordinator's type and size.
C12_ValidationBarrier ==
    (CoordinatorCreate /\ Provisioned) =>
        \A i \in DOMAIN last.nodes :
            last.nodes[i] # LocalNode =>
                ValidatedBefore(last.nodes[i],
                                CHOOSE p \in EvAt("volume_create", LocalNode) :
                                    TRUE)

\* A create over three nodes, with no type and no backend given, provisioned.
C12_Witness ==
    /\ CoordinatorCreate /\ Provisioned
    /\ last.nodes = <<"n1", "n2", "n3">>
    /\ last.storage_backend = None
    /\ ~Truthy(last.storage_type)

\* C13. Permission first: the modify-VM permission check is the first
\* collaborator action of create; when it fails nothing else is asked of any
\* collaborator, nothing is constructed, registered or created, and the
\* cache is as it was.
C13_PermissionFirst ==
    last.op = "create" =>
        /\ last.run.log[1] =
              Ev("assert_permission", LocalNode, "MODIFY_VM",
                 last.run.log[1].ans)
        /\ \A i \in DOMAIN last.run.log :
              last.run.log[i].e = "assert_permission" => i = 1
        /\ ~last.run.log[1].ans =>
              /\ Len(last.run.log) = 1
              /\ last.run.raised = "InsufficientPermissions"
              /\ NothingProvisioned
              /\ CACHED_OBJECTS = last.cache0

\* A create by a caller without the permission.
C13_Witness ==
    /\ last.op = "create"
    /\ ~last.run.log[1].ans
    /\ last.run.raised = "InsufficientPermissions"

\* C14. Storage-type consistency per VM: when the VM has a storage type and
\* validation in create resolved another, create raises UnknownStorageType
\* (line 166) with nothing constructed and no volume created; what create
\* provisions for a VM with a storage type is of the class of that type.
C14_StorageTypeConsistency ==
    (last.op = "create" /\ Truthy(last.vm_storage_type)) =>
        /\ (ValidationReturned
              /\ last.run.storage_type # last.vm_storage_type) =>
              /\ RaisedAt("UnknownStorageType", 166, LocalNode)
              /\ NothingProvisioned
        /\ Provisioned =>
              /\ ArgAt("construct", LocalNode) = last.vm_storage_type
              /\ last.run.storage_type = last.vm_storage_type

\* An explicit type, available on every node, that is not the VM's type.
C14_Witness ==
    /\ last.op = "create" /\ ValidationReturned
    /\ last.vm_storage_type = "Local"
    /\ last.storage_type = "Drbd"
    /\ RaisedAt("UnknownStorageType", 166, LocalNode)

\* C15. Provision on the validated choice: the hard-drive object create
\* constructs and provisions has the storage type and the storage backend
\* that validation resolved and capacity-checked, also when the caller
\* passed no backend and validation selected the single candidate.
C15_ProvisionOnValidatedChoice ==
    Provisioned =>
        /\ ArgAt("construct", LocalNode) = last.run.storage_type
        /\ AnsAt("construct", LocalNode) = last.run.storage_backend
        /\ ArgAt("volume_create", LocalNode) = last.run.storage_backend
        /\ ArgAt("get_free_space", LocalNode) = last.run.storage_backend

\* C16. Created objects are cached: the object create returned is held in
\* the cache under its (VM name, disk id, storage type) key, so that a
\* no-override getObject for that VM and disk, made in the state create
\* left, returns that same instance.
C16_CreatedObjectsAreCached ==
    Provisioned =>
        /\ \E k \in DOMAIN CACHED_OBJECTS :
              /\ k[1] = last.vm /\ k[3] = last.run.storage_type
              /\ CACHED_OBJECTS[k] = nextId
        /\ \E d \in DiskIds :
              LET r == RunToEnd(StartFrame(last.vm, d, EmptyConfig), Shared)
              IN  r.f.outcome = "returned" /\ r.f.ret = nextId

\* ---------------------------------------------------- claims on volumes

VolumeOps ==
    {"create", "delete", "activate", "resize", "snapshot", "get_size"}

\* C17. Idempotent delete: delete with ignore_non_existent on a volume that
\* does not exist runs no command and raises nothing; in the other three
\* cases the removal command is run exactly once and its failure is raised
\* as ExternalStorageCommandError; after a delete that returned, any further
\* delete with ignore_non_existent runs nothing, raises nothing and leaves
\* the volume as it is.
C17_IdempotentDelete ==
    last.op = "delete" =>
        /\ IF last.ignore_non_existent /\ ~last.before.exists
           THEN /\ last.commands = <<>>
                /\ last.outcome = "returned"
                /\ volume = last.before
           ELSE /\ Len(last.commands) = 1
                /\ last.commands[1].tool = "lvremove"
                /\ last.outcome = IF last.commands[1].ok THEN "returned"
                                  ELSE "ExternalStorageCommandError"
        /\ last.outcome = "returned" =>
              LvmVolume_delete(volume, TRUE)
                  = {VolumeResult(volume, <<>>, "returned", None)}

\* A delete with ignore_non_existent of a volume that does not exist.
C17_Witness ==
    /\ last.op = "delete"
    /\ last.ignore_non_existent
    /\ ~last.before.exists
    /\ last.outcome = "returned"

\* C18. Uniform error mapping: every volume operation that runs an external
\* command raises ExternalStorageCommandError when the command exits
\* non-zero, never the command's own exception, and runs it once.
C18_UniformErrorMapping ==
    last.op \in VolumeOps =>
        /\ Len(last.commands) <= 1
        /\ last.outcome # "MCVirtCommandException"
        /\ \A i \in DOMAIN last.commands :
              ~last.commands[i].ok =>
                  last.outcome = "ExternalStorageCommandError"

\* The checks of increase_size passed for the last call.
IncreasePermitted ==
    /\ last.op = "increase_size"
    /\ last.vm.permitted /\ last.before.exists /\ last.vm.is_stopped
    /\ ~last.vm.clone_parent /\ ~last.vm.clone_children

NoCommandFailed == \A i \in DOMAIN last.commands : last.commands[i].ok

\* C19. Additive resize: resize(X, increase=True) on an existing volume of
\* size S makes a following get_size return S + X, resize with increase
\* false or left out sets the size to X, and increase_size(X) grows the disk
\* by X (no command having failed).
C19_AdditiveResize ==
    /\ (last.op = "resize" /\ last.before.exists /\ NoCommandFailed) =>
          /\ last.outcome = "returned"
          /\ \A g \in LvmVolume_get_size(volume) :
                g.outcome = "returned" =>
                    g.ret = IF last.increase = "True"
                            THEN last.before.size + last.size
                            ELSE last.size
    /\ (IncreasePermitted /\ NoCommandFailed) =>
          /\ last.outcome = "returned"
          /\ volume.size = last.before.size + last.size

\* What the checks of increase_size come to, in the order the claim gives.
ExpectedRefusal ==
    IF ~last.vm.permitted THEN "InsufficientPermissions"
    ELSE IF ~last.before.exists THEN "HardDriveDoesNotExistException"
    ELSE IF ~last.vm.is_stopped THEN "VmAlreadyStarted"
    ELSE IF last.vm.clone_parent \/ last.vm.clone_children THEN "VmIsClone"
    ELSE "none"

\* C20. Resize refusal: increase_size raises VmAlreadyStarted for a VM that
\* is not stopped and VmIsClone for a VM with a clone parent or clone
\* children, the checks taking effect in the order permission, existence,
\* stopped, clone; whenever a check refuses, no command is run and the
\* volume is as it was.
C20_ResizeRefusal ==
    (last.op = "increase_size" /\ ExpectedRefusal # "none") =>
        /\ last.outcome = ExpectedRefusal
        /\ last.commands = <<>>
        /\ volume = last.before

\* A stopped VM with clone children only was refused.
C20_Witness ==
    /\ last.op = "increase_size"
    /\ last.vm.permitted /\ last.before.exists /\ last.vm.is_stopped
    /\ ~last.vm.clone_parent /\ last.vm.clone_children
    /\ last.outcome = "VmIsClone"

\* ------------------------------------------------ claims on registration

\* The last call constructed a hard-drive object; NewObject is that object.
Constructed ==
    \/ last.op = "getObject" /\ last.f.constructed
    \/ last.op = "create" /\ EvAt("construct", LocalNode) # {}

NewObject == last.nextId0 + 1

\* In the last create, _register_object was called once, right after the
\* constructor and before the volume was created.
RegisterCalledOnce ==
    /\ Cardinality(EvAt("construct", LocalNode)) = 1
    /\ Cardinality(EvAt("register", LocalNode)) = 1
    /\ LET c == CHOOSE i \in EvAt("construct", LocalNode) : TRUE
       IN  /\ last.run.log[c + 1].e = "register"
           /\ \A i \in EvAt("volume_create", LocalNode) : c + 1 < i

\* C21 as stated. Every hard-drive object newly constructed by getObject or
\* by create is registered with the daemon, once, before it is returned, and
\* a getObject cache hit registers nothing.
C21_RegisteredOnConstruction ==
    last.op \in {"getObject", "create"} =>
        IF Constructed
        THEN /\ nextId = NewObject
             /\ registered = last.registered0 \cup {NewObject}
             /\ last.op = "create" => RegisterCalledOnce
        ELSE registered = last.registered0

\* C21 as amended. _register_object is called once for every hard-drive
\* object newly constructed by getObject or by create, before it is
\* returned, and registers it with the Pyro daemon exactly when the Factory
\* is itself registered with one (_pyro_initialised); a call that constructs
\* nothing, a getObject cache hit among them, registers nothing.
C21_RegisteredWhenPyroInitialised ==
    last.op \in {"getObject", "create"} =>
        IF Constructed
        THEN /\ nextId = NewObject
             /\ registered = IF pyro_initialised
                             THEN last.registered0 \cup {NewObject}
                             ELSE last.registered0
             /\ last.op = "getObject" =>
                   /\ last.f.hard_drive_object = NewObject
                   /\ last.f.registered = pyro_initialised
             /\ last.op = "create" => RegisterCalledOnce
        ELSE /\ registered = last.registered0
             /\ nextId = last.nextId0

\* A getObject hit on an object that an earlier call constructed and the
\* daemon registered, after a create registered another.
C21_Witness ==
    /\ last.op = "getObject"
    /\ last.f.outcome = "returned"
    /\ ~last.f.constructed
    /\ pyro_initialised
    /\ last.f.ret \in registered
    /\ Cardinality(registered) = 2

\* ---------------------------------------------------- claims on migration

\* C22. Migration eligibility: preMigrationChecks raises
\* CannotMigrateLocalDisk if and only if the storage backend of the disk is
\* not shared, and returns when it is shared, whatever the state of the
\* volume; it runs no command and leaves the volume as it was.
C22_MigrationEligibility ==
    last.op = "preMigrationChecks" =>
        /\ (last.outcome = "CannotMigrateLocalDisk") = ~last.vm.shared
        /\ (last.outcome = "returned") = last.vm.shared
        /\ last.commands = <<>>
        /\ volume = last.before

\* The check refused the disk of an existing volume on a backend that is
\* not shared.
C22_Witness ==
    /\ last.op = "preMigrationChecks"
    /\ ~last.vm.shared
    /\ last.before.exists
    /\ last.outcome = "CannotMigrateLocalDisk"

\* ------------------------------------------- claims on validation's frame

\* The queries ensure_hdd_valid makes of its collaborators.
ValidationQueries ==
    {"isAvailable", "ensure_available_on_node", "get_all", "get_free_space",
     "get_object"}

\* C23. Validation is read-only: ensure_hdd_valid, on the coordinator and on
\* every node it is fanned out to, returning or raising, only queries its
\* collaborators: the cache is as it was, no hard-drive object is
\* constructed or registered, and no volume is created, deleted or resized;
\* a create that validation refused has done no more.
C23_ValidationIsReadOnly ==
    /\ last.op = "ensure_hdd_valid" =>
          /\ \A i \in DOMAIN last.run.log :
                last.run.log[i].e \in ValidationQueries
          /\ CACHED_OBJECTS = last.cache0
          /\ nextId = last.nextId0
          /\ registered = last.registered0
          /\ volume = last.volume0
    /\ (last.op = "create" /\ Validated /\ ~ValidationReturned) =>
          /\ \A i \in DOMAIN last.run.log :
                last.run.log[i].e \in ValidationQueries \cup {"assert_permission"}
          /\ NothingProvisioned
          /\ CACHED_OBJECTS = last.cache0

\* An ensure_hdd_valid on the coordinator that returned after asking two
\* other nodes.
C23_Witness ==
    /\ last.op = "ensure_hdd_valid"
    /\ last.is_cluster_master
    /\ last.run.raised = "none"
    /\ PassedOn("n2") /\ PassedOn("n3")

\* The local type, backend and capacity checks of the last call passed, by
\* the answers given on the local node.
LocalChecksPassed ==
    /\ Validated
    /\ last.run.storage_type \in AnsAt("isAvailable", LocalNode)
    /\ \/ /\ EvAt("ensure_available_on_node", LocalNode) # {}
          /\ AnsAt("ensure_available_on_node", LocalNode)
       \/ /\ EvAt("get_all", LocalNode) # {}
          /\ Len(AnsAt("get_all", LocalNode)) = 1
    /\ EvAt("get_free_space", LocalNode) # {}
    /\ AnsAt("get_free_space", LocalNode) >= last.size

\* The positions of the log at which another node was contacted.
RemoteContacts ==
    {i \in DOMAIN last.run.log : last.run.log[i].node # LocalNode}

\* C24. Local validation precedes fan-out: a remote node is contacted only
\* by the cluster coordinator and only after its own type, backend and
\* capacity checks have all passed; when a local check fails, and on a node
\* that is not the coordinator, no other node is contacted.
C24_LocalBeforeFanOut ==
    Validated =>
        /\ RemoteContacts # {} =>
              /\ last.is_cluster_master
              /\ LocalChecksPassed
              /\ \A i \in RemoteContacts :
                    \A j \in EvAt("get_free_space", LocalNode) : j < i
        /\ ~LocalChecksPassed => RemoteContacts = {}
        /\ ~last.is_cluster_master => RemoteContacts = {}
        /\ (last.is_cluster_master /\ LocalChecksPassed
              /\ RemoteNodes(last.nodes) # <<>>) => RemoteContacts # {}

\* On the coordinator, with two other nodes to ask, the local capacity
\* check failed and nobody was asked.
C24_Witness ==
    /\ Validated
    /\ last.is_cluster_master
    /\ last.nodes = <<"n1", "n2", "n3">>
    /\ RaisedAt("InsufficientSpace", 128, LocalNode)
    /\ RemoteContacts = {}

\* ------------------------------------------------- claims on cache keys

\* C25. Cache keys name a known type: after any sequence of getObject calls
\* the storage-type component of every cache key is the name of a hard-drive
\* class, never the empty string or an unknown name; a getObject whose
\* resolved type is absent or unknown raises UnknownStorageType, constructs
\* and registers nothing and leaves no entry under its key.
C25_CacheKeysNameKnownType ==
    /\ \A k \in DOMAIN CACHED_OBJECTS : k[3] \in TypeNames
    /\ (LastIsGetObject /\ last.f.storage_type \notin TypeNames) =>
          /\ last.f.outcome = "UnknownStorageType"
          /\ ~last.f.constructed
          /\ nextId = last.nextId0
          /\ registered = last.registered0
          /\ last.f.cache_key \notin DOMAIN CACHED_OBJECTS

\* With objects in the cache, a getObject named an unknown type for a VM
\* with no configured type and was refused.
C25_Witness ==
    /\ LastIsGetObject
    /\ last.f.storage_type = "Bogus"
    /\ last.f.cache_key[3] = "Bogus"
    /\ last.f.outcome = "UnknownStorageType"
    /\ DOMAIN CACHED_OBJECTS # {}

====
